---- MODULE Spec2Model ----
(***************************************************************************)
(* Weighted edit distance (brew_distance.distance) and the fixed-cost      *)
(* engine (string_distance.sdist / edit_path) as a state machine of calls. *)
(*                                                                         *)
(* A str is a sequence of characters.  A cost dict is a function from the  *)
(* keys it holds (a subset of Move) to values; a value is a record         *)
(* [real, num, v]: real says whether it is a numbers.Real, num whether it  *)
(* adds to and compares with numbers, v is the number.                     *)
(* A Traceback is a record [cost, move, traceback]; its traceback field is *)
(* a reference to another Traceback object: the key <<i, j>> under which   *)
(* that object is stored in the dict `distances`, or None.                 *)
(***************************************************************************)
EXTENDS Integers, Sequences, FiniteSets, TLC

\* ---------------------------------------------------------------- bounds
MaxLen == 2
MaxDefaultLen == 3
MaxCost == 2
MaxInitial == 1
MaxCalls == 2

Alphabet == {"a", "b"}

Strings(n) == UNION {[1..k -> Alphabet] : k \in 0..n}

\* ------------------------------------------------------------ data types
Move == {"MATCH", "INS", "DEL", "SUBST", "INITIAL"}

None == <<>>

Traceback(cost, move, traceback) ==
    [cost |-> cost, move |-> move, traceback |-> traceback]

Num(n) == [real |-> TRUE, num |-> TRUE, v |-> n]

\* a value that is no numbers.Real and adds to no number: a str such as "1"
NonReal == [real |-> FALSE, num |-> FALSE, v |-> 0]

\* a value that is no numbers.Real but adds to and compares with numbers,
\* giving its own type: decimal.Decimal(n)
Decimal(n) == [real |-> FALSE, num |-> TRUE, v |-> n]

\* the dict {MATCH: m, INS: i, DEL: d, SUBST: s, INITIAL: n}
CostDict(m, i, d, s, n) ==
    [k \in Move |-> Num(CASE k = "MATCH" -> m [] k = "INS" -> i [] k = "DEL" -> d
                          [] k = "SUBST" -> s [] OTHER -> n)]

\* the default of distance's parameter cost
DefaultCost == CostDict(0, 1, 1, 1, 0)

\* --------------------------------------------------- brew_distance._best
\* _best without the relabelling of lines 83-84
BestNoOverride(distances, sub_move, ins_move, del_move) ==
    LET traceback1 == sub_move.traceback
        cost_with_sub == sub_move.cost + distances[traceback1].cost
        traceback2 == ins_move.traceback
        cost_with_ins == ins_move.cost + distances[traceback2].cost
        traceback3 == del_move.traceback
        cost_with_del == del_move.cost + distances[traceback3].cost
        s0 == Traceback(cost_with_sub, sub_move.move, traceback1)
        s1 == IF cost_with_ins < s0.cost
              THEN Traceback(cost_with_ins, ins_move.move, traceback2) ELSE s0
        s2 == IF cost_with_del < s1.cost
              THEN Traceback(cost_with_del, del_move.move, traceback3) ELSE s1
    IN  s2

\* _best with <= in place of < at lines 71 and 76
BestLaterWinsTies(distances, sub_move, ins_move, del_move) ==
    LET traceback1 == sub_move.traceback
        cost_with_sub == sub_move.cost + distances[traceback1].cost
        traceback2 == ins_move.traceback
        cost_with_ins == ins_move.cost + distances[traceback2].cost
        traceback3 == del_move.traceback
        cost_with_del == del_move.cost + distances[traceback3].cost
        s0 == Traceback(cost_with_sub, sub_move.move, traceback1)
        s1 == IF cost_with_ins <= s0.cost
              THEN Traceback(cost_with_ins, ins_move.move, traceback2) ELSE s0
        s2 == IF cost_with_del <= s1.cost
              THEN Traceback(cost_with_del, del_move.move, traceback3) ELSE s1
        move == IF s2.cost = distances[s2.traceback].cost THEN "MATCH" ELSE s2.move
    IN  Traceback(s2.cost, move, s2.traceback)

\* _best without the comparison of lines 76-79
BestIgnoresDel(distances, sub_move, ins_move, del_move) ==
    LET traceback1 == sub_move.traceback
        cost_with_sub == sub_move.cost + distances[traceback1].cost
        traceback2 == ins_move.traceback
        cost_with_ins == ins_move.cost + distances[traceback2].cost
        s0 == Traceback(cost_with_sub, sub_move.move, traceback1)
        s1 == IF cost_with_ins < s0.cost
              THEN Traceback(cost_with_ins, ins_move.move, traceback2) ELSE s0
        move == IF s1.cost = distances[s1.traceback].cost THEN "MATCH" ELSE s1.move
    IN  Traceback(s1.cost, move, s1.traceback)

\* the candidates hold (increment, move, reference to the predecessor)
Best(distances, sub_move, ins_move, del_move) ==
    LET traceback1 == sub_move.traceback
        cost_with_sub == sub_move.cost + distances[traceback1].cost
        traceback2 == ins_move.traceback
        cost_with_ins == ins_move.cost + distances[traceback2].cost
        traceback3 == del_move.traceback
        cost_with_del == del_move.cost + distances[traceback3].cost
        \* best_cost, move, traceback after each of the three steps
        s0 == Traceback(cost_with_sub, sub_move.move, traceback1)
        s1 == IF cost_with_ins < s0.cost
              THEN Traceback(cost_with_ins, ins_move.move, traceback2) ELSE s0
        s2 == IF cost_with_del < s1.cost
              THEN Traceback(cost_with_del, del_move.move, traceback3) ELSE s1
        move == IF s2.cost = distances[s2.traceback].cost THEN "MATCH" ELSE s2.move
    IN  Traceback(s2.cost, move, s2.traceback)

\* ---------------------------------------------- brew_distance._edit_path
\* the deletions loop adding 1 in place of del_cost
RECURSIVE DeletionsUnitCost(_, _, _, _)
DeletionsUnitCost(distances, i, len1, del_cost) ==
    IF i >= len1 THEN distances
    ELSE LET so_far == distances[<<i, 0>>].cost
         IN  DeletionsUnitCost(distances @@
                         (<<i + 1, 0>> :> Traceback(so_far + 1, "DEL", <<i, 0>>)),
                       i + 1, len1, del_cost)

\* for i in range(0, len1): distances[i + 1, 0] = ...
RECURSIVE Deletions(_, _, _, _)
Deletions(distances, i, len1, del_cost) ==
    IF i >= len1 THEN distances
    ELSE LET so_far == distances[<<i, 0>>].cost
         IN  Deletions(distances @@
                         (<<i + 1, 0>> :> Traceback(so_far + del_cost, "DEL", <<i, 0>>)),
                       i + 1, len1, del_cost)

\* the insertions loop adding 1 in place of ins_cost
RECURSIVE InsertionsUnitCost(_, _, _, _)
InsertionsUnitCost(distances, j, len2, ins_cost) ==
    IF j >= len2 THEN distances
    ELSE LET so_far == distances[<<0, j>>].cost
         IN  InsertionsUnitCost(distances @@
                          (<<0, j + 1>> :> Traceback(so_far + 1, "INS", <<0, j>>)),
                        j + 1, len2, ins_cost)

\* for j in range(0, len2): distances[0, j + 1] = ...
RECURSIVE Insertions(_, _, _, _)
Insertions(distances, j, len2, ins_cost) ==
    IF j >= len2 THEN distances
    ELSE LET so_far == distances[<<0, j>>].cost
         IN  Insertions(distances @@
                          (<<0, j + 1>> :> Traceback(so_far + ins_cost, "INS", <<0, j>>)),
                        j + 1, len2, ins_cost)

\* the nested loops over i and j, flattened: k = i * len2 + j
RECURSIVE Substitutions(_, _, _, _, _)
Substitutions(distances, k, string1, string2, c) ==
    LET len1 == Len(string1)
        len2 == Len(string2)
    IN  IF k >= len1 * len2 THEN distances
        ELSE LET i == k \div len2
                 j == k % len2
                 \* string1[i] in the source is string1[i + 1] here (1-based)
                 subst == IF string1[i + 1] = string2[j + 1] THEN c["MATCH"] ELSE c["SUBST"]
                 cell == Best(distances,
                              Traceback(subst, IF subst # 0 THEN "SUBST" ELSE "MATCH", <<i, j>>),
                              Traceback(c["INS"], "INS", <<i + 1, j>>),
                              Traceback(c["DEL"], "DEL", <<i, j + 1>>))
             IN  Substitutions(distances @@ (<<i + 1, j + 1>> :> cell),
                               k + 1, string1, string2, c)

\* the dict `distances` after the three loops, for numeric costs c
FillMatrix(string1, string2, c) ==
    LET d0 == (<<0, 0>> :> Traceback(c["INITIAL"], "INITIAL", None))
        d1 == Deletions(d0, 0, Len(string1), c["DEL"])
        d2 == Insertions(d1, 0, Len(string2), c["INS"])
    IN  Substitutions(d2, 0, string1, string2, c)

\* the numbers held by a dict all of whose five values are real
Vals(cost) == [m \in Move |-> cost[m].v]

\* _edit_path(string1, string2, cost), for a dict whose MATCH, INS, DEL and
\* SUBST values are real (distance has checked them): what it raises, the dict
\* it has built by then, and the type of the costs its cells hold (that of
\* cost[INITIAL], which every cell's cost is a sum with).
\* Line 93 looks up all five keys before the dict exists; with INITIAL a str,
\* the origin cell is stored and the first border loop that runs adds a
\* number to a str.
EditPath(string1, string2, cost) ==
    IF Move \ DOMAIN cost # {}
    THEN [raised |-> "KeyError", distances |-> <<>>, real |-> TRUE, num |-> TRUE]
    ELSE LET initial_cost == cost["INITIAL"]
             origin == (<<0, 0>> :> Traceback(initial_cost.v, "INITIAL", None))
         IN  IF ~initial_cost.num
             THEN IF Len(string1) > 0 \/ Len(string2) > 0
                  THEN [raised |-> "TypeError", distances |-> origin,
                        real |-> FALSE, num |-> FALSE]
                  ELSE [raised |-> "None", distances |-> origin,
                        real |-> FALSE, num |-> FALSE]
             ELSE [raised |-> "None",
                   distances |-> FillMatrix(string1, string2, Vals(cost)),
                   real |-> initial_cost.real, num |-> TRUE]

\* --------------------------------------------- brew_distance._list_edits
\* the loop running while raw_edits is not None
RECURSIVE ListEditsKeepsOrigin(_, _, _)
ListEditsKeepsOrigin(distances, raw_edits, just_edits) ==
    IF raw_edits # None
    THEN ListEditsKeepsOrigin(distances, distances[raw_edits].traceback,
                              <<distances[raw_edits].move>> \o just_edits)
    ELSE just_edits

\* the loop with just_edits.append in place of insert(0, ...)
RECURSIVE ListEditsAppends(_, _, _)
ListEditsAppends(distances, raw_edits, just_edits) ==
    IF distances[raw_edits].traceback # None
    THEN ListEditsAppends(distances, distances[raw_edits].traceback,
                          Append(just_edits, distances[raw_edits].move))
    ELSE just_edits

\* the while loop: raw_edits is a reference into distances
RECURSIVE ListEditsLoop(_, _, _)
ListEditsLoop(distances, raw_edits, just_edits) ==
    IF distances[raw_edits].traceback # None
    THEN ListEditsLoop(distances, distances[raw_edits].traceback,
                       <<distances[raw_edits].move>> \o just_edits)
    ELSE just_edits

ListEdits(distances, raw_edits) == ListEditsLoop(distances, raw_edits, <<>>)

\* ------------------------------------------------ brew_distance.distance
\* isinstance(x, str): the one non-str argument of the model is NotAString
NotAString == <<"int">>

IsStr(x) == \A k \in DOMAIN x : x[k] \in Alphabet

CheckedKeys == <<"MATCH", "INS", "DEL", "SUBST">>

\* the elif condition, its four lookups evaluated left to right:
\* "KeyError", "invalid" (the condition is true) or "ok"
RECURSIVE CostCheck(_, _)
CostCheck(cost, k) ==
    IF k > Len(CheckedKeys) THEN "ok"
    ELSE IF CheckedKeys[k] \notin DOMAIN cost THEN "KeyError"
    ELSE IF ~cost[CheckedKeys[k]].real THEN "invalid"
    ELSE CostCheck(cost, k + 1)

Raise(exc, msg) == [raised |-> exc, msg |-> msg, distance |-> <<>>, edits |-> <<>>]

\* a returned value: distance and edits are <<>> when not part of it
Return(distance, edits) ==
    [raised |-> "None", msg |-> "", distance |-> distance, edits |-> edits]

\* lines 164-184: the call's outcome (ret) and the dict _edit_path built,
\* as far as it got when it raised
DistanceBody(string1, string2, output, cost) ==
    IF ~IsStr(string1) \/ ~IsStr(string2)
    THEN [ret |-> Raise("BrewDistanceException", "Brew-Distance: non-string input supplied."),
          distances |-> <<>>]
    ELSE IF output \notin {"both", "distance", "edits"}
    THEN [ret |-> Raise("BrewDistanceException",
                        "Brew-Distance: invalid output parameter supplied."),
          distances |-> <<>>]
    ELSE IF CostCheck(cost, 1) = "KeyError"
    THEN [ret |-> Raise("KeyError", ""), distances |-> <<>>]
    ELSE IF CostCheck(cost, 1) = "invalid"
    THEN [ret |-> Raise("BrewDistanceException",
                        "Brew-Distance: invalid cost parameter supplied."),
          distances |-> <<>>]
    ELSE LET results == EditPath(string1, string2, cost)
             last == <<Len(string1), Len(string2)>>
         IN  IF results.raised # "None"
             THEN [ret |-> Raise(results.raised, ""), distances |-> results.distances]
             ELSE LET d == results.distances
                      results0 == [real |-> results.real, num |-> results.num, v |-> d[last].cost]
                  IN  [ret |-> CASE output = "distance" -> Return(<<results0>>, <<>>)
                                 [] output = "edits" -> Return(<<>>, <<ListEdits(d, last)>>)
                                 [] OTHER -> Return(<<results0>>, <<ListEdits(d, last)>>),
                       distances |-> d]

\* a call that leaves its result in the dict it was given
DistanceWritesCost(string1, string2, output, cost) ==
    LET r == DistanceBody(string1, string2, output, cost)
    IN  [ret |-> r.ret, distances |-> r.distances,
         cost |-> IF r.ret.distance # <<>> /\ "INITIAL" \in DOMAIN cost
                  THEN [cost EXCEPT !["INITIAL"] = r.ret.distance[1]]
                  ELSE cost]

\* distance(string1, string2, output, cost): the outcome, and the object passed
\* as cost as the call leaves it (no statement of distance or _edit_path
\* assigns to it)
distance(string1, string2, output, cost) ==
    LET r == DistanceBody(string1, string2, output, cost)
    IN  [ret |-> r.ret, distances |-> r.distances, cost |-> cost]

\* ------------------------------------------------- string_distance.sdist
Min3(x, y, z) == IF x <= y /\ x <= z THEN x ELSE IF y <= z THEN y ELSE z

RECURSIVE SdistDeletions(_, _, _)
SdistDeletions(d, i, m) ==
    IF i >= m THEN d
    ELSE SdistDeletions(d @@ (<<i + 1, 0>> :> d[<<i, 0>>] + 1), i + 1, m)

RECURSIVE SdistInsertions(_, _, _)
SdistInsertions(d, j, n) ==
    IF j >= n THEN d
    ELSE SdistInsertions(d @@ (<<0, j + 1>> :> d[<<0, j>>] + 1), j + 1, n)

RECURSIVE SdistInterior(_, _, _, _)
SdistInterior(d, k, string1, string2) ==
    LET m == Len(string1)
        n == Len(string2)
    IN  IF k >= m * n THEN d
        ELSE LET i == k \div n
                 j == k % n
                 subst == IF string1[i + 1] = string2[j + 1] THEN 0 ELSE 1
             IN  SdistInterior(d @@ (<<i + 1, j + 1>> :>
                                       Min3(d[<<i, j>>] + subst,
                                            d[<<i + 1, j>>] + 1,
                                            d[<<i, j + 1>>] + 1)),
                               k + 1, string1, string2)

\* delCost = insCost = substCost = 1.0; the floats are whole numbers
sdist(string1, string2) ==
    LET d0 == (<<0, 0>> :> 0)
        d1 == SdistDeletions(d0, 0, Len(string1))
        d2 == SdistInsertions(d1, 0, Len(string2))
    IN  SdistInterior(d2, 0, string1, string2)[<<Len(string1), Len(string2)>>]

\* --------------------------------------------- string_distance.edit_path
\* best compares the candidates' own cost fields and returns the candidate
FixedBest(sub_move, ins_move, del_move) ==
    LET chosen0 == sub_move
        chosen1 == IF ins_move.cost < chosen0.cost THEN ins_move ELSE chosen0
        chosen2 == IF del_move.cost < chosen1.cost THEN del_move ELSE chosen1
    IN  chosen2

RECURSIVE FixedDeletions(_, _, _)
FixedDeletions(distances, i, len1) ==
    IF i >= len1 THEN distances
    ELSE LET so_far == distances[<<i, 0>>].cost
         IN  FixedDeletions(distances @@
                              (<<i + 1, 0>> :> Traceback(so_far + 1, "DEL", <<i, 0>>)),
                            i + 1, len1)

RECURSIVE FixedInsertions(_, _, _)
FixedInsertions(distances, j, len2) ==
    IF j >= len2 THEN distances
    ELSE LET so_far == distances[<<0, j>>].cost
         IN  FixedInsertions(distances @@
                               (<<0, j + 1>> :> Traceback(so_far + 1, "INS", <<0, j>>)),
                             j + 1, len2)

RECURSIVE FixedSubstitutions(_, _, _, _)
FixedSubstitutions(distances, k, string1, string2) ==
    LET len1 == Len(string1)
        len2 == Len(string2)
    IN  IF k >= len1 * len2 THEN distances
        ELSE LET i == k \div len2
                 j == k % len2
                 subst == IF string1[i + 1] = string2[j + 1] THEN 0 ELSE 1
                 cell == FixedBest(
                           Traceback(subst, IF subst # 0 THEN "SUBST" ELSE "MATCH", <<i, j>>),
                           Traceback(1, "INS", <<i + 1, j>>),
                           Traceback(1, "DEL", <<i, j + 1>>))
             IN  FixedSubstitutions(distances @@ (<<i + 1, j + 1>> :> cell),
                                    k + 1, string1, string2)

\* the dict `distances` of edit_path after its three loops
FixedMatrix(string1, string2) ==
    LET d0 == (<<0, 0>> :> Traceback(0, "INITIAL", None))
        d1 == FixedDeletions(d0, 0, Len(string1))
        d2 == FixedInsertions(d1, 0, Len(string2))
    IN  FixedSubstitutions(d2, 0, string1, string2)

\* extract_path's loop: result.append((tb.cost, tb.move)) until INITIAL
RECURSIVE ExtractPathLoop(_, _, _)
ExtractPathLoop(distances, tb, result) ==
    IF distances[tb].move # "INITIAL"
    THEN ExtractPathLoop(distances, distances[tb].traceback,
                         Append(result, <<distances[tb].cost, distances[tb].move>>))
    ELSE result

Reverse(s) == [k \in 1..Len(s) |-> s[Len(s) + 1 - k]]

\* ops = result[::-1]
extract_path(distances, tb) == Reverse(ExtractPathLoop(distances, tb, <<>>))

edit_path(string1, string2) ==
    extract_path(FixedMatrix(string1, string2), <<Len(string1), Len(string2)>>)

\* ---------------------------------------------------------------- state
VARIABLES
    pc,            \* "idle": no call in progress; "done": a call has returned or raised
    call,          \* the arguments of the last call
    result,        \* what the last call returned or raised
    distances,     \* the dict of Tracebacks the last call built
    default_cost,  \* the dict object bound as the default of distance's cost
    caller_cost,   \* the dict object the caller passed as cost, after the call
    ncalls         \* calls made so far (counted in SpecSeq only)

vars == <<pc, call, result, distances, default_cost, caller_cost, ncalls>>

NoCall == [fn |-> "", string1 |-> <<>>, string2 |-> <<>>, output |-> "",
           explicit |-> FALSE, cost |-> <<>>]

NoResult == Return(<<>>, <<>>)

Init ==
    /\ pc = "idle"
    /\ call = NoCall
    /\ result = NoResult
    /\ distances = <<>>
    /\ default_cost = DefaultCost
    /\ caller_cost = <<>>
    /\ ncalls = 0

\* distance(string1, string2, output, cost)
DistanceCall(string1, string2, output, cost) ==
    LET r == distance(string1, string2, output, cost)
    IN  /\ pc = "idle"
        /\ pc' = "done"
        /\ call' = [fn |-> "distance", string1 |-> string1, string2 |-> string2,
                    output |-> output, explicit |-> TRUE, cost |-> cost]
        /\ result' = r.ret
        /\ distances' = r.distances
        /\ caller_cost' = r.cost
        /\ UNCHANGED default_cost

\* distance(string1, string2, output): cost is the default object
DistanceDefaultCall(string1, string2, output) ==
    LET r == distance(string1, string2, output, default_cost)
    IN  /\ pc = "idle"
        /\ pc' = "done"
        /\ call' = [fn |-> "distance", string1 |-> string1, string2 |-> string2,
                    output |-> output, explicit |-> FALSE, cost |-> default_cost]
        /\ result' = r.ret
        /\ distances' = r.distances
        /\ default_cost' = r.cost
        /\ UNCHANGED caller_cost

\* string_distance.edit_path(string1, string2)
EditPathCall(string1, string2) ==
    /\ pc = "idle"
    /\ pc' = "done"
    /\ call' = [fn |-> "edit_path", string1 |-> string1, string2 |-> string2,
                output |-> "", explicit |-> FALSE, cost |-> <<>>]
    /\ result' = Return(<<>>, <<edit_path(string1, string2)>>)
    /\ distances' = FixedMatrix(string1, string2)
    /\ UNCHANGED <<default_cost, caller_cost>>

\* string_distance.sdist(string1, string2)
SdistCall(string1, string2) ==
    /\ pc = "idle"
    /\ pc' = "done"
    /\ call' = [fn |-> "sdist", string1 |-> string1, string2 |-> string2,
                output |-> "", explicit |-> FALSE, cost |-> <<>>]
    /\ result' = Return(<<Num(sdist(string1, string2))>>, <<>>)
    /\ distances' = <<>>
    /\ UNCHANGED <<default_cost, caller_cost>>

\* the caller drops the result; the call's locals are gone
Discard ==
    /\ pc = "done"
    /\ pc' = "idle"
    /\ call' = NoCall
    /\ result' = NoResult
    /\ distances' = <<>>
    /\ caller_cost' = <<>>
    /\ UNCHANGED <<default_cost, ncalls>>

\* --------------------------------------------- Spec: well-formed arguments
Outputs == {"both", "distance", "edits"}

\* every dict of numbers up to MaxCost; the Initial cost is 0 or MaxInitial
Costs == {CostDict(m, i, d, s, n) :
            m \in 0..MaxCost, i \in 0..MaxCost, d \in 0..MaxCost, s \in 0..MaxCost,
            n \in {0, MaxInitial}}

CallDistance ==
    /\ pc = "idle"
    /\ \E string1 \in Strings(MaxLen), string2 \in Strings(MaxLen),
          output \in Outputs, cost \in Costs :
          DistanceCall(string1, string2, output, cost)
    /\ UNCHANGED ncalls

CallDistanceDefault ==
    /\ pc = "idle"
    /\ \E string1 \in Strings(MaxDefaultLen), string2 \in Strings(MaxDefaultLen),
          output \in Outputs :
          DistanceDefaultCall(string1, string2, output)
    /\ UNCHANGED ncalls

CallEditPath ==
    /\ pc = "idle"
    /\ \E string1 \in Strings(MaxDefaultLen), string2 \in Strings(MaxDefaultLen) :
          EditPathCall(string1, string2)
    /\ UNCHANGED ncalls

CallSdist ==
    /\ pc = "idle"
    /\ \E string1 \in Strings(MaxDefaultLen), string2 \in Strings(MaxDefaultLen) :
          SdistCall(string1, string2)
    /\ UNCHANGED ncalls

Next == CallDistance \/ CallDistanceDefault \/ CallEditPath \/ CallSdist \/ Discard

Spec == Init /\ [][Next]_vars

\* ------------------------------- SpecSeq: sequences of calls to distance
\* dicts lacking INITIAL, and holding a str under INITIAL
NoInitialCost == [k \in Move \ {"INITIAL"} |-> Num(1)]

StrInitialCost == [k \in Move |-> IF k = "INITIAL" THEN NonReal ELSE Num(1)]

DecimalInitialCost == [k \in Move |-> IF k = "INITIAL" THEN Decimal(1) ELSE Num(1)]

SeqCosts == {DefaultCost, CostDict(1, 2, 1, 2, 1), CostDict(0, 0, 1, 2, 0),
             NoInitialCost, StrInitialCost, DecimalInitialCost}

SeqDistance ==
    /\ pc = "idle"
    /\ ncalls < MaxCalls
    /\ \E string1 \in Strings(MaxLen), string2 \in Strings(MaxLen),
          output \in Outputs, cost \in SeqCosts :
          DistanceCall(string1, string2, output, cost)
    /\ ncalls' = ncalls + 1

SeqDistanceDefault ==
    /\ pc = "idle"
    /\ ncalls < MaxCalls
    /\ \E string1 \in Strings(MaxLen), string2 \in Strings(MaxLen),
          output \in Outputs :
          DistanceDefaultCall(string1, string2, output)
    /\ ncalls' = ncalls + 1

NextSeq == SeqDistance \/ SeqDistanceDefault \/ Discard

SpecSeq == Init /\ [][NextSeq]_vars

\* ------------------------------------ SpecArgs: arguments of any shape
MaxArgLen == 1

ArgStrings == Strings(MaxArgLen) \cup {NotAString}

ArgOutputs == Outputs \cup {"bogus"}

\* every dict over a subset of the five keys, each value 1, a str or Decimal(1)
ArgCosts == UNION {[K -> {Num(1), NonReal, Decimal(1)}] : K \in SUBSET Move}

ArgsDistance ==
    /\ pc = "idle"
    /\ \E string1 \in ArgStrings, string2 \in ArgStrings,
          output \in ArgOutputs, cost \in ArgCosts :
          DistanceCall(string1, string2, output, cost)
    /\ UNCHANGED ncalls

NextArgs == ArgsDistance \/ Discard

SpecArgs == Init /\ [][NextArgs]_vars

\* ================================================================ claims
\* a call of distance that returned
Weighted == pc = "done" /\ call.fn = "distance" /\ result.raised = "None"

Len1 == Len(call.string1)

Len2 == Len(call.string2)

Terminal == <<Len1, Len2>>

\* the numbers of the call's cost dict
C == Vals(call.cost)

Interior == {cell \in DOMAIN distances : cell[1] > 0 /\ cell[2] > 0}

\* the totals of the three transitions into interior cell <<i + 1, j + 1>>
Increment(i, j) ==
    IF call.string1[i + 1] = call.string2[j + 1] THEN C["MATCH"] ELSE C["SUBST"]

DiagTotal(cell) ==
    distances[<<cell[1] - 1, cell[2] - 1>>].cost + Increment(cell[1] - 1, cell[2] - 1)

HorizTotal(cell) == distances[<<cell[1], cell[2] - 1>>].cost + C["INS"]

VertTotal(cell) == distances[<<cell[1] - 1, cell[2]>>].cost + C["DEL"]

Diag(cell) == <<cell[1] - 1, cell[2] - 1>>

Horiz(cell) == <<cell[1], cell[2] - 1>>

Vert(cell) == <<cell[1] - 1, cell[2]>>

\* replaying edits[k..] over source from position i, with out produced so far
RECURSIVE Replay(_, _, _, _, _, _)
Replay(edits, k, source, i, out, target) ==
    IF k > Len(edits) THEN i = Len(source) /\ out = target
    ELSE LET j == Len(out)
         IN  CASE edits[k] = "MATCH" ->
                    /\ i < Len(source) /\ j < Len(target)
                    /\ source[i + 1] = target[j + 1]
                    /\ Replay(edits, k + 1, source, i + 1, Append(out, source[i + 1]), target)
               [] edits[k] = "INS" ->
                    /\ j < Len(target)
                    /\ Replay(edits, k + 1, source, i, Append(out, target[j + 1]), target)
               [] edits[k] = "DEL" ->
                    /\ i < Len(source)
                    /\ Replay(edits, k + 1, source, i + 1, out, target)
               [] edits[k] = "SUBST" ->
                    /\ i < Len(source) /\ j < Len(target)
                    /\ Replay(edits, k + 1, source, i + 1, Append(out, target[j + 1]), target)
               [] OTHER -> FALSE

\* C1: under the default costs, replaying the returned edits over string1
\* consumes all of string1 and produces string2, every MATCH at equal characters.
C1_ReplayReconstructsTarget ==
    (Weighted /\ call.cost = DefaultCost /\ result.edits # <<>>)
        => Replay(result.edits[1], 1, call.string1, 0, <<>>, call.string2)

C1_Witness ==
    /\ Weighted /\ call.cost = DefaultCost /\ result.edits # <<>>
    /\ Len1 = MaxDefaultLen /\ Len2 = MaxDefaultLen - 1
    /\ {"MATCH", "SUBST", "DEL"} \subseteq {result.edits[1][k] : k \in DOMAIN result.edits[1]}

\* the reference recurrence, with d[0, 0] = 0
Reference(source, target, c) ==
    LET d[i \in 0..Len(source), j \in 0..Len(target)] ==
          IF i = 0 /\ j = 0 THEN 0
          ELSE IF i = 0 THEN d[0, j - 1] + c["INS"]
          ELSE IF j = 0 THEN d[i - 1, 0] + c["DEL"]
          ELSE Min3(d[i - 1, j - 1]
                      + (IF source[i] = target[j] THEN c["MATCH"] ELSE c["SUBST"]),
                    d[i, j - 1] + c["INS"],
                    d[i - 1, j] + c["DEL"])
    IN  d[Len(source), Len(target)]

\* C2: the returned distance is the Initial cost plus the reference recurrence's
\* value at (len(string1), len(string2)); under the default costs it is sdist.
C2_DistanceIsMinimum ==
    (Weighted /\ result.distance # <<>>)
        => /\ result.distance[1]
                = Num(C["INITIAL"] + Reference(call.string1, call.string2, C))
           /\ call.cost = DefaultCost
                => result.distance[1] = Num(sdist(call.string1, call.string2))

C2_Witness ==
    /\ Weighted /\ result.distance # <<>>
    /\ Len1 = MaxLen /\ Len2 = MaxLen
    /\ C["INITIAL"] = 1 /\ C["MATCH"] = 1 /\ C["SUBST"] = 2 /\ C["INS"] = 1 /\ C["DEL"] = 0
    /\ result.distance[1].v > 2

\* C3: with insert_cost = delete_cost, the distance of (string1, string2) is the
\* distance of (string2, string1).
C3_Symmetry ==
    (Weighted /\ result.distance # <<>> /\ C["INS"] = C["DEL"])
        => result.distance[1]
             = distance(call.string2, call.string1, "distance", call.cost).ret.distance[1]

C3_Witness ==
    /\ Weighted /\ result.distance # <<>>
    /\ C["INS"] = 2 /\ C["DEL"] = 2 /\ C["SUBST"] = 1 /\ C["MATCH"] = 0
    /\ Len1 = MaxLen /\ Len2 = 1
    /\ result.distance[1].v > 2

AllInserts(n) == [k \in 1..n |-> "INS"]

\* C4 as stated: distance("", t) is len(t) * insert_cost with len(t) Inserts.
C4_Original ==
    (Weighted /\ call.string1 = <<>>)
        => /\ result.distance # <<>> => result.distance[1] = Num(Len2 * C["INS"])
           /\ result.edits # <<>> => result.edits[1] = AllInserts(Len2)

\* C4 amended: distance("", t) is Initial cost + len(t) * insert_cost, with
\* exactly len(t) Inserts; distance("", "") is the Initial cost, with no edits.
C4_EmptySource ==
    (Weighted /\ call.string1 = <<>>)
        => /\ result.distance # <<>>
                => result.distance[1] = Num(C["INITIAL"] + Len2 * C["INS"])
           /\ result.edits # <<>> => result.edits[1] = AllInserts(Len2)

C4_Witness ==
    /\ Weighted /\ call.string1 = <<>> /\ Len2 = MaxLen
    /\ C["INITIAL"] = 1 /\ C["INS"] = 2
    /\ result.distance = <<Num(1 + 2 * MaxLen)>>
    /\ result.edits = <<AllInserts(MaxLen)>>

\* C5: a cost dict lacking one of the five keys, or holding a non-number under
\* one, makes the call raise BrewDistanceException (invalid cost) with no dict
\* of cells built and nothing returned.
C5_InvalidCostRaises ==
    (/\ pc = "done" /\ call.fn = "distance"
     /\ IsStr(call.string1) /\ IsStr(call.string2) /\ call.output \in Outputs
     /\ \E m \in Move : m \notin DOMAIN call.cost \/ ~call.cost[m].real)
        => /\ result.raised = "BrewDistanceException"
           /\ result.msg = "Brew-Distance: invalid cost parameter supplied."
           /\ distances = <<>>

\* C6: the default cost dict and the caller's dict are as before the call, and
\* the outcome is the one the call's own arguments determine.
C6_CostsUntouched ==
    /\ default_cost = DefaultCost
    /\ (pc = "done" /\ call.fn = "distance")
         => /\ call.explicit => caller_cost = call.cost
            /\ result = DistanceBody(call.string1, call.string2, call.output,
                                      IF call.explicit THEN call.cost ELSE DefaultCost).ret

C6_Witness ==
    /\ pc = "done" /\ call.fn = "distance" /\ ~call.explicit
    /\ ncalls = MaxCalls
    /\ result.distance # <<>> /\ result.distance[1].v = MaxLen

\* C7: the predecessor of an interior cell is the diagonal cell when the
\* diagonal total is <= both others, the horizontal cell exactly when the
\* horizontal total is < the diagonal and <= the vertical, the vertical cell
\* exactly when the vertical total is < both; the cost is the least total.
C7_TieBreak ==
    Weighted =>
        \A cell \in Interior :
            LET dg == DiagTotal(cell)
                hz == HorizTotal(cell)
                vt == VertTotal(cell)
                tb == distances[cell].traceback
            IN  /\ (dg <= hz /\ dg <= vt) => tb = Diag(cell)
                /\ tb = Horiz(cell) <=> (hz < dg /\ hz <= vt)
                /\ tb = Vert(cell) <=> (vt < dg /\ vt < hz)
                /\ distances[cell].cost = Min3(dg, hz, vt)

C7_Witness ==
    /\ Weighted
    /\ \E cell \in Interior :
          /\ DiagTotal(cell) = HorizTotal(cell) /\ DiagTotal(cell) = VertTotal(cell)
          /\ distances[cell].traceback = Diag(cell)
    /\ \E cell \in Interior :
          /\ HorizTotal(cell) = VertTotal(cell) /\ HorizTotal(cell) < DiagTotal(cell)
          /\ distances[cell].traceback = Horiz(cell)
    /\ \E cell \in Interior :
          /\ VertTotal(cell) < HorizTotal(cell) /\ VertTotal(cell) < DiagTotal(cell)
          /\ distances[cell].traceback = Vert(cell)

StructuralLabel(cell) ==
    CASE distances[cell].traceback = Diag(cell) -> "SUBST"
      [] distances[cell].traceback = Horiz(cell) -> "INS"
      [] distances[cell].traceback = Vert(cell) -> "DEL"
      [] OTHER -> "?"

\* C8: an interior cell is MATCH exactly when its cost equals its predecessor's
\* cost, else it carries the label of the winning transition; row 0 is INS and
\* column 0 is DEL, whatever the costs.
C8_MatchOverride ==
    Weighted =>
        /\ \A cell \in Interior :
              LET t == distances[cell]
              IN  /\ t.move = "MATCH" <=> t.cost = distances[t.traceback].cost
                  /\ t.move # "MATCH" => t.move = StructuralLabel(cell)
        /\ \A cell \in DOMAIN distances :
              /\ (cell[1] = 0 /\ cell[2] > 0) => distances[cell].move = "INS"
              /\ (cell[2] = 0 /\ cell[1] > 0) => distances[cell].move = "DEL"

C8_Witness ==
    /\ Weighted /\ C["INS"] = 0 /\ C["DEL"] = 1
    /\ \E cell \in Interior :
          distances[cell].move = "MATCH" /\ distances[cell].traceback = Horiz(cell)
    /\ \E cell \in Interior :
          distances[cell].move = "SUBST" /\ distances[cell].traceback = Diag(cell)
    /\ \E cell \in DOMAIN distances :
          /\ cell[1] = 0 /\ cell[2] > 0 /\ distances[cell].move = "INS"
          /\ distances[cell].cost = distances[distances[cell].traceback].cost

\* the cells the traceback walk visits, terminal cell first
RECURSIVE Walk(_, _)
Walk(d, cell) ==
    IF d[cell].traceback = None THEN <<cell>>
    ELSE <<cell>> \o Walk(d, d[cell].traceback)

Max(x, y) == IF x >= y THEN x ELSE y

\* C9: every cell but the origin has one of its three neighbours as
\* predecessor; the walk from the terminal cell strictly decreases i + j,
\* ends at the origin after between max(len1, len2) and len1 + len2 steps;
\* the returned list is the visited cells' moves from origin to terminal,
\* without the origin's INITIAL.
C9_Traceback ==
    Weighted =>
        LET d == distances
            w == Walk(d, Terminal)
            steps == Len(w) - 1
        IN  /\ d[<<0, 0>>].traceback = None
            /\ \A cell \in DOMAIN d \ {<<0, 0>>} :
                  d[cell].traceback \in {Diag(cell), Horiz(cell), Vert(cell)} \cap DOMAIN d
            /\ \A k \in 1..steps : w[k + 1][1] + w[k + 1][2] < w[k][1] + w[k][2]
            /\ w[Len(w)] = <<0, 0>>
            /\ Max(Len1, Len2) <= steps /\ steps <= Len1 + Len2
            /\ result.edits # <<>>
                  => /\ result.edits[1] = [k \in 1..steps |-> d[w[steps + 1 - k]].move]
                     /\ \A k \in 1..steps : result.edits[1][k] # "INITIAL"

C9_Witness ==
    /\ Weighted /\ result.edits # <<>>
    /\ Len1 = MaxLen /\ Len2 = MaxLen
    /\ Len(result.edits[1]) = Len1 + Len2
    /\ Len(Walk(distances, Terminal)) = Len1 + Len2 + 1

\* C10: edit_path returns the operation kinds distance returns under the
\* default costs, and its cells hold the weighted matrix's cumulative costs.
C10_SameAlgorithm ==
    (pc = "done" /\ call.fn = "edit_path")
        => LET w == FillMatrix(call.string1, call.string2, Vals(DefaultCost))
               ops == result.edits[1]
           IN  /\ [k \in 1..Len(ops) |-> ops[k][2]] = ListEdits(w, Terminal)
               /\ \A cell \in DOMAIN distances : distances[cell].cost = w[cell].cost

====
